---- MODULE Spec2Model ----
(***************************************************************************)
(* Model of examples/websocket/python-client.py: class IncidentMonitor,   *)
(* its three subscribe_* coroutines, stop() and main().                    *)
(*                                                                         *)
(* The three coroutines run as asyncio tasks on one event loop and share   *)
(* one gql Client / WebsocketsTransport (self.client, self.transport).     *)
(* Each coroutine does                                                     *)
(*     async with self.client as session:        -- connect + handshake    *)
(*         async for result in session.subscribe(...):                     *)
(*             handler(result[...]);  if not self.running: break           *)
(*   except Exception: log                                                 *)
(* Entering the client context connects the shared transport; the          *)
(* transport refuses a connect while it is connected or connecting         *)
(* (TransportAlreadyConnected).  Leaving the context, normally or by an    *)
(* exception, closes the shared transport.                                 *)
(*                                                                         *)
(* One action is one run of a coroutine between two suspension points of   *)
(* the event loop.  stop() runs from a signal handler and can interleave   *)
(* anywhere, also between handler(...) and the test of self.running.       *)
(***************************************************************************)
EXTENDS Integers, Sequences, FiniteSets, TLC

\* ---------------------------------------------------------------- bounds
\* Number of Next frames the server emits in one run.
MaxEvents == 3
\* Number of stop() calls (signals) in one run.
MaxStops == 2

\* ------------------------------------------------------------- constants
\* The three subscriptions main() passes to asyncio.gather, in this order.
Subs == {"critical", "updates", "new"}

\* Position of each coroutine in the argument list of asyncio.gather: tasks
\* are created in this order and the event loop runs their first step FIFO.
Order == [s \in Subs |-> CASE s = "critical" -> 1
                           [] s = "updates"  -> 2
                           [] s = "new"      -> 3]

VARIABLES
    running,     \* self.running
    stopCalls,   \* number of stop() calls so far
    mainPc,      \* main(): "constructed", "gather", "stopped"
    pc,          \* per coroutine: "init", "connecting", "handshaking",
                 \*   "listening", "check", "stalled", "done"
    exit,        \* per coroutine: why it returned ("none" while it has not)
    connecting,  \* transport._connecting
    ws,          \* transport.websocket: "none", "handshaking", "open"
    nOpen,       \* physical connections in progress or open
    connects,    \* physical connects started so far
    handshakes,  \* connection_init handshakes started so far
    serverSubs,  \* subscriptions the server holds on the connection
    wire,        \* frames sent by the server, not yet read by the client
    queue,       \* per subscription: the listener queue of the session
    sent,        \* per subscription: event ids in server emission order
    handled,     \* per subscription: event ids passed to the handler
    emitted,     \* number of Next frames emitted so far
    lateEv,      \* ids of the events emitted after the first stop()
    subscribes,  \* per subscription: Subscribe frames issued so far
    lateHandled, \* per subscription: handler calls made after stop()
    startedStopped \* coroutines whose first step ran with running False

vars == <<running, stopCalls, mainPc, pc, exit, connecting, ws, nOpen,
          connects, handshakes, serverSubs, wire, queue, sent, handled,
          emitted, lateEv, subscribes, lateHandled, startedStopped>>

\* ------------------------------------------------------------- helpers
Range(q) == {q[i] : i \in 1..Len(q)}

IsPrefix(p, q) == Len(p) <= Len(q) /\ \A i \in 1..Len(p) : p[i] = q[i]

\* Number of occurrences of x in the sequence q.
Occ(q, x) == Cardinality({i \in 1..Len(q) : q[i] = x})

\* The item of a listener queue that ends the stream: "error", "complete"
\* or "closed".  The other items are results, [kind |-> "next", id |-> e].
Marker(k) == [kind |-> k, id |-> 0]

\* The event loop is free: no coroutine is inside a synchronous section
\* (between handler(...) and the test of self.running, or inside a handler
\* that does not return).
LoopFree == \A s \in Subs : pc[s] \notin {"check", "stalled"}

\* Every task created by gather has run its first step.  gather schedules
\* the three first steps together, so the event loop runs all of them
\* before it processes the completion of any I/O.
AllStarted == \A s \in Subs : pc[s] # "init"

\* Variant: connect() is accepted whatever the state of the transport.
CanConnectAlways == TRUE

\* transport.connect(): accepted only if not connected and not connecting.
CanConnect == ws = "none" /\ ~connecting

\* Variant: the generator yields the newest queued item first.
FrontNewest(q) == q[Len(q)]

\* async for: the next item the subscription generator yields.
Front(q) == Head(q)

\* async for: what stays queued after one item was taken.
Rest(q) == Tail(q)

\* Variant: the receive loop looks the listener up under a wrong id.
RouteWrong(f) == IF f.sub = "critical" THEN "updates" ELSE "critical"

\* The receive loop routes a frame to the listener of its subscription id.
Route(f) == f.sub

Init ==
    /\ running = FALSE
    /\ stopCalls = 0
    /\ mainPc = "constructed"
    /\ pc = [s \in Subs |-> "init"]
    /\ exit = [s \in Subs |-> "none"]
    /\ connecting = FALSE
    /\ ws = "none"
    /\ nOpen = 0
    /\ connects = 0
    /\ handshakes = 0
    /\ serverSubs = {}
    /\ wire = <<>>
    /\ queue = [s \in Subs |-> <<>>]
    /\ sent = [s \in Subs |-> <<>>]
    /\ handled = [s \in Subs |-> <<>>]
    /\ emitted = 0
    /\ lateEv = {}
    /\ subscribes = [s \in Subs |-> 0]
    /\ lateHandled = [s \in Subs |-> 0]
    /\ startedStopped = {}

\* ----------------------------------------------------------------- main
\* main(): monitor.running = True, signal handlers installed, gather
\* creates the three tasks.
MainStart ==
    /\ mainPc = "constructed"
    /\ mainPc' = "gather"
    /\ running' = TRUE
    /\ UNCHANGED <<stopCalls, pc, exit, connecting, ws, nOpen, connects,
                   handshakes, serverSubs, wire, queue, sent, handled,
                   emitted, lateEv,
                   subscribes, lateHandled, startedStopped>>

\* Variant: stop() flips the flag instead of clearing it.
StopToggle ==
    /\ mainPc = "gather"
    /\ stopCalls < MaxStops
    /\ running' = ~running
    /\ stopCalls' = stopCalls + 1
    /\ UNCHANGED <<mainPc, pc, exit, connecting, ws, nOpen, connects,
                   handshakes, serverSubs, wire, queue, sent, handled,
                   emitted, lateEv,
                   subscribes, lateHandled, startedStopped>>

\* stop(), called by the signal handler.
Stop ==
    /\ mainPc = "gather"
    /\ stopCalls < MaxStops
    /\ running' = FALSE
    /\ stopCalls' = stopCalls + 1
    /\ UNCHANGED <<mainPc, pc, exit, connecting, ws, nOpen, connects,
                   handshakes, serverSubs, wire, queue, sent, handled,
                   emitted, lateEv,
                   subscribes, lateHandled, startedStopped>>

\* Variant: gather returns as soon as one coroutine has returned.
MainFinishFirst ==
    /\ mainPc = "gather"
    /\ LoopFree
    /\ \E s \in Subs : pc[s] = "done"
    /\ mainPc' = "stopped"
    /\ UNCHANGED <<running, stopCalls, pc, exit, connecting, ws, nOpen,
                   connects, handshakes, serverSubs, wire, queue, sent,
                   handled, emitted, lateEv, subscribes, lateHandled,
                   startedStopped>>

\* gather returns when all three coroutines have returned; finally: log.
MainFinish ==
    /\ mainPc = "gather"
    /\ LoopFree
    /\ \A s \in Subs : pc[s] = "done"
    /\ mainPc' = "stopped"
    /\ UNCHANGED <<running, stopCalls, pc, exit, connecting, ws, nOpen,
                   connects, handshakes, serverSubs, wire, queue, sent,
                   handled, emitted, lateEv,
                   subscribes, lateHandled, startedStopped>>

\* ------------------------------------------------- the shared transport
\* transport.close(), as run by Client.__aexit__ and by a failure of the
\* connection: the websocket is dropped, frames in flight are lost, the
\* server forgets the subscriptions of the connection, and every other
\* listener of the session is ended with a TransportClosed marker.
ClosedQueues(s) ==
    [t \in Subs |-> IF t = s THEN <<>>
                    ELSE IF pc[t] = "listening" /\ ws # "none"
                         THEN Append(queue[t], Marker("closed"))
                         ELSE queue[t]]

\* The coroutine of s leaves `async with self.client` (break, end of the
\* stream or an exception caught by `except Exception`) and returns.
Leave(s, why) ==
    /\ pc' = [pc EXCEPT ![s] = "done"]
    /\ exit' = [exit EXCEPT ![s] = why]
    /\ ws' = "none"
    /\ nOpen' = IF ws # "none" THEN nOpen - 1 ELSE nOpen
    /\ wire' = <<>>
    /\ serverSubs' = {}
    /\ queue' = ClosedQueues(s)

\* ------------------------------------------------- subscribe_* coroutines
\* First step of a coroutine: `async with self.client` calls
\* transport.connect().  Accepted: the connect is started and the task
\* suspends.  Refused: TransportAlreadyConnected is caught by
\* `except Exception`, logged, and the coroutine returns.
Enter(s) ==
    /\ mainPc = "gather"
    /\ LoopFree
    /\ pc[s] = "init"
    /\ \A t \in Subs : Order[t] < Order[s] => pc[t] # "init"
    /\ IF CanConnect
       THEN /\ connecting' = TRUE
            /\ nOpen' = nOpen + 1
            /\ connects' = connects + 1
            /\ pc' = [pc EXCEPT ![s] = "connecting"]
            /\ exit' = exit
       ELSE /\ pc' = [pc EXCEPT ![s] = "done"]
            /\ exit' = [exit EXCEPT ![s] = "already_connected"]
            /\ UNCHANGED <<connecting, nOpen, connects>>
    /\ startedStopped' = IF running THEN startedStopped
                                  ELSE startedStopped \cup {s}
    /\ UNCHANGED <<running, stopCalls, mainPc, ws, handshakes, serverSubs,
                   wire, queue, sent, handled, emitted, lateEv,
                   subscribes, lateHandled>>

\* The websocket is established; connection_init is sent.
ConnectOpen(s) ==
    /\ LoopFree
    /\ AllStarted
    /\ pc[s] = "connecting"
    /\ connecting' = FALSE
    /\ ws' = "handshaking"
    /\ handshakes' = handshakes + 1
    /\ pc' = [pc EXCEPT ![s] = "handshaking"]
    /\ UNCHANGED <<running, stopCalls, mainPc, exit, nOpen, connects,
                   serverSubs, wire, queue, sent, handled, emitted, lateEv,
                   subscribes, lateHandled, startedStopped>>

\* The websocket cannot be established: the exception leaves __aenter__
\* and is caught by `except Exception`.
ConnectFail(s) ==
    /\ LoopFree
    /\ AllStarted
    /\ pc[s] = "connecting"
    /\ connecting' = FALSE
    /\ nOpen' = nOpen - 1
    /\ pc' = [pc EXCEPT ![s] = "done"]
    /\ exit' = [exit EXCEPT ![s] = "connect_error"]
    /\ UNCHANGED <<running, stopCalls, mainPc, ws, connects, handshakes,
                   serverSubs, wire, queue, sent, handled, emitted, lateEv,
                   subscribes, lateHandled, startedStopped>>

\* connection_ack arrives: the session is returned and the first step of
\* `async for ... session.subscribe(...)` sends the subscribe frame.
HandshakeAck(s) ==
    /\ LoopFree
    /\ pc[s] = "handshaking"
    /\ ws' = "open"
    /\ serverSubs' = serverSubs \cup {s}
    /\ pc' = [pc EXCEPT ![s] = "listening"]
    /\ subscribes' = [subscribes EXCEPT ![s] = @ + 1]
    /\ UNCHANGED <<running, stopCalls, mainPc, exit, connecting, nOpen,
                   connects, handshakes, wire, queue, sent, handled,
                   emitted, lateEv, lateHandled, startedStopped>>

\* No ack (timeout, rejection, connection lost): the transport drops the
\* websocket and the exception is caught by `except Exception`.
HandshakeFail(s) ==
    /\ LoopFree
    /\ pc[s] = "handshaking"
    /\ ws' = "none"
    /\ nOpen' = nOpen - 1
    /\ pc' = [pc EXCEPT ![s] = "done"]
    /\ exit' = [exit EXCEPT ![s] = "handshake_error"]
    /\ UNCHANGED <<running, stopCalls, mainPc, connecting, connects,
                   handshakes, serverSubs, wire, queue, sent, handled,
                   emitted, lateEv,
                   subscribes, lateHandled, startedStopped>>

\* ---------------------------------------------------------------- server
\* The server emits a Next frame for a subscription it holds.
ServerEmit(s) ==
    /\ ws = "open"
    /\ s \in serverSubs
    /\ emitted < MaxEvents
    /\ emitted' = emitted + 1
    /\ wire' = Append(wire, [sub |-> s, kind |-> "next", id |-> emitted + 1])
    /\ sent' = [sent EXCEPT ![s] = Append(@, emitted + 1)]
    /\ lateEv' = IF stopCalls > 0 THEN lateEv \cup {emitted + 1} ELSE lateEv
    /\ UNCHANGED <<running, stopCalls, mainPc, pc, exit, connecting, ws,
                   nOpen, connects, handshakes, serverSubs, queue, handled,
                   subscribes, lateHandled, startedStopped>>

\* The server ends a subscription with an Error or a Complete frame.
ServerEnd(s, k) ==
    /\ ws = "open"
    /\ s \in serverSubs
    /\ serverSubs' = serverSubs \ {s}
    /\ wire' = Append(wire, [sub |-> s, kind |-> k, id |-> 0])
    /\ UNCHANGED <<running, stopCalls, mainPc, pc, exit, connecting, ws,
                   nOpen, connects, handshakes, queue, sent, handled,
                   emitted, lateEv,
                   subscribes, lateHandled, startedStopped>>

ServerError(s) == ServerEnd(s, "error")

ServerComplete(s) == ServerEnd(s, "complete")

\* ------------------------------------------- receive loop of the transport
\* The receive task reads the next frame and puts it on the listener queue
\* of the frame's subscription; a frame without a listener is dropped.
ReceiveFrame ==
    /\ LoopFree
    /\ ws = "open"
    /\ wire # <<>>
    /\ LET f == Head(wire)
           k == Route(f)
       IN  queue' = IF pc[k] = "listening"
                    THEN [queue EXCEPT ![k] = Append(@, [kind |-> f.kind, id |-> f.id])]
                    ELSE queue
    /\ wire' = Tail(wire)
    /\ UNCHANGED <<running, stopCalls, mainPc, pc, exit, connecting, ws,
                   nOpen, connects, handshakes, serverSubs, sent, handled,
                   emitted, lateEv,
                   subscribes, lateHandled, startedStopped>>

\* The connection fails while open: the receive task closes the transport
\* and ends every listener with a TransportClosed marker.
TransportFail ==
    /\ LoopFree
    /\ ws = "open"
    /\ ws' = "none"
    /\ nOpen' = nOpen - 1
    /\ wire' = <<>>
    /\ serverSubs' = {}
    /\ queue' = [t \in Subs |-> IF pc[t] = "listening"
                                THEN Append(queue[t], Marker("closed"))
                                ELSE queue[t]]
    /\ UNCHANGED <<running, stopCalls, mainPc, pc, exit, connecting,
                   connects, handshakes, sent, handled, emitted, lateEv,
                   subscribes, lateHandled, startedStopped>>

\* --------------------------------------------------- the subscription loop
\* A result is ready for the loop of s.
HasResult(s) ==
    /\ LoopFree
    /\ pc[s] = "listening"
    /\ queue[s] # <<>>
    /\ Front(queue[s]).kind = "next"

\* The stream of s ends with marker k.
HasMarker(s, k) ==
    /\ LoopFree
    /\ pc[s] = "listening"
    /\ queue[s] # <<>>
    /\ Front(queue[s]).kind = k

\* The handler of s is called: the call is counted if stop() came before.
CountCall(s) ==
    lateHandled' = IF stopCalls > 0
                   THEN [lateHandled EXCEPT ![s] = @ + 1]
                   ELSE lateHandled

\* async for yields a result; handler(...) is called and returns.
DeliverOk(s) ==
    /\ HasResult(s)
    /\ handled' = [handled EXCEPT ![s] = Append(@, Front(queue[s]).id)]
    /\ queue' = [queue EXCEPT ![s] = Rest(@)]
    /\ pc' = [pc EXCEPT ![s] = "check"]
    /\ CountCall(s)
    /\ UNCHANGED <<running, stopCalls, mainPc, exit, connecting, ws, nOpen,
                   connects, handshakes, serverSubs, wire, sent, emitted,
                   lateEv,
                   subscribes, startedStopped>>

\* Variant: the exception is swallowed inside the loop, which goes on.
DeliverRaiseContinue(s) ==
    /\ HasResult(s)
    /\ handled' = [handled EXCEPT ![s] = Append(@, Front(queue[s]).id)]
    /\ queue' = [queue EXCEPT ![s] = Rest(@)]
    /\ exit' = [exit EXCEPT ![s] = "handler_error"]
    /\ CountCall(s)
    /\ UNCHANGED <<running, stopCalls, mainPc, pc, connecting, ws, nOpen,
                   connects, handshakes, serverSubs, wire, sent, emitted,
                   lateEv, subscribes, startedStopped>>

\* handler(...) is called and raises: the exception leaves the client
\* context and is caught by `except Exception`.
DeliverRaise(s) ==
    /\ HasResult(s)
    /\ handled' = [handled EXCEPT ![s] = Append(@, Front(queue[s]).id)]
    /\ Leave(s, "handler_error")
    /\ CountCall(s)
    /\ UNCHANGED <<running, stopCalls, mainPc, connecting, connects,
                   handshakes, sent, emitted, lateEv,
                   subscribes, startedStopped>>

\* result[...] or incident[...] raises before the handler is called (the
\* payload lacks the field): the exception leaves the client context and
\* is caught by `except Exception`.
DeliverBadResult(s) ==
    /\ HasResult(s)
    /\ Leave(s, "result_error")
    /\ UNCHANGED <<running, stopCalls, mainPc, connecting, connects,
                   handshakes, sent, handled, emitted, lateEv,
                   subscribes, lateHandled, startedStopped>>

\* handler(...) is called and does not return: it runs on the event loop's
\* thread, so the event loop runs nothing else from here on.
DeliverStall(s) ==
    /\ HasResult(s)
    /\ handled' = [handled EXCEPT ![s] = Append(@, Front(queue[s]).id)]
    /\ queue' = [queue EXCEPT ![s] = Rest(@)]
    /\ pc' = [pc EXCEPT ![s] = "stalled"]
    /\ CountCall(s)
    /\ UNCHANGED <<running, stopCalls, mainPc, exit, connecting, ws, nOpen,
                   connects, handshakes, serverSubs, wire, sent, emitted,
                   lateEv,
                   subscribes, startedStopped>>

\* Variant: the loop goes on whatever the flag says.
CheckRunningIgnore(s) ==
    /\ pc[s] = "check"
    /\ pc' = [pc EXCEPT ![s] = "listening"]
    /\ UNCHANGED <<running, stopCalls, mainPc, exit, connecting, ws, nOpen,
                   connects, handshakes, serverSubs, wire, queue, sent,
                   handled, emitted, lateEv, subscribes, lateHandled,
                   startedStopped>>

\* `if not self.running: break`, after the handler has returned.
CheckRunning(s) ==
    /\ pc[s] = "check"
    /\ IF running
       THEN /\ pc' = [pc EXCEPT ![s] = "listening"]
            /\ UNCHANGED <<exit, ws, nOpen, wire, serverSubs, queue>>
       ELSE Leave(s, "stopped")
    /\ UNCHANGED <<running, stopCalls, mainPc, connecting, connects,
                   handshakes, sent, handled, emitted, lateEv,
                   subscribes, lateHandled, startedStopped>>

\* The stream ends with a server Error: the exception is caught and logged.
DeliverError(s) ==
    /\ HasMarker(s, "error")
    /\ Leave(s, "server_error")
    /\ UNCHANGED <<running, stopCalls, mainPc, connecting, connects,
                   handshakes, sent, handled, emitted, lateEv,
                   subscribes, lateHandled, startedStopped>>

\* The stream ends with a server Complete: the loop ends normally.
DeliverComplete(s) ==
    /\ HasMarker(s, "complete")
    /\ Leave(s, "complete")
    /\ UNCHANGED <<running, stopCalls, mainPc, connecting, connects,
                   handshakes, sent, handled, emitted, lateEv,
                   subscribes, lateHandled, startedStopped>>

\* The stream ends because the transport was closed: the exception is
\* caught and logged.
DeliverClosed(s) ==
    /\ HasMarker(s, "closed")
    /\ Leave(s, "transport")
    /\ UNCHANGED <<running, stopCalls, mainPc, connecting, connects,
                   handshakes, sent, handled, emitted, lateEv,
                   subscribes, lateHandled, startedStopped>>

\* ------------------------------------------------------- specifications
\* Steps the event loop runs by itself once they are possible.
LoopStep ==
    \/ MainStart
    \/ MainFinish
    \/ \E s \in Subs : Enter(s)
    \/ \E s \in Subs : ConnectOpen(s) \/ ConnectFail(s)
    \/ \E s \in Subs : HandshakeAck(s) \/ HandshakeFail(s)
    \/ ReceiveFrame
    \/ \E s \in Subs : DeliverOk(s) \/ DeliverRaise(s)
    \/ \E s \in Subs : DeliverBadResult(s)
    \/ \E s \in Subs : CheckRunning(s)
    \/ \E s \in Subs : DeliverError(s)
    \/ \E s \in Subs : DeliverComplete(s)
    \/ \E s \in Subs : DeliverClosed(s)

Next ==
    \/ MainStart
    \/ Stop
    \/ MainFinish
    \/ \E s \in Subs : Enter(s)
    \/ \E s \in Subs : ConnectOpen(s)
    \/ \E s \in Subs : ConnectFail(s)
    \/ \E s \in Subs : HandshakeAck(s)
    \/ \E s \in Subs : HandshakeFail(s)
    \/ \E s \in Subs : ServerEmit(s)
    \/ \E s \in Subs : ServerError(s)
    \/ \E s \in Subs : ServerComplete(s)
    \/ ReceiveFrame
    \/ TransportFail
    \/ \E s \in Subs : DeliverOk(s)
    \/ \E s \in Subs : DeliverRaise(s)
    \/ \E s \in Subs : DeliverBadResult(s)
    \/ \E s \in Subs : DeliverStall(s)
    \/ \E s \in Subs : CheckRunning(s)
    \/ \E s \in Subs : DeliverError(s)
    \/ \E s \in Subs : DeliverComplete(s)
    \/ \E s \in Subs : DeliverClosed(s)

Spec == Init /\ [][Next]_vars

\* The event loop keeps running what is runnable; the server, the network
\* and the signals are under no obligation.
LiveSpec == Init /\ [][Next]_vars /\ WF_vars(LoopStep)

TypeOK ==
    /\ running \in BOOLEAN
    /\ stopCalls \in 0..MaxStops
    /\ mainPc \in {"constructed", "gather", "stopped"}
    /\ pc \in [Subs -> {"init", "connecting", "handshaking", "listening",
                        "check", "stalled", "done"}]
    /\ ws \in {"none", "handshaking", "open"}
    /\ connecting \in BOOLEAN
    /\ nOpen \in 0..3
    /\ emitted \in 0..MaxEvents
    /\ serverSubs \subseteq Subs

\* ================================================================ claims
\* Number of copies of event e on the wire and in the listener queue of k.
OnWire(e) == Cardinality({i \in 1..Len(wire) : wire[i].kind = "next" /\ wire[i].id = e})

InQueue(k, e) == Cardinality({i \in 1..Len(queue[k]) : queue[k][i].kind = "next" /\ queue[k][i].id = e})

\* C1 (as claimed): a subscription that was ended by a transport failure
\* while stop() had not been called eventually delivers again (its loop is
\* listening again), unless stop() is called in the meantime.
C1_ResumesAfterFailure ==
    \A s \in Subs :
        (exit[s] = "transport" /\ stopCalls = 0)
            ~> (pc[s] = "listening" \/ stopCalls > 0)

\* C2 (as claimed): while the handler of s1 does not return, the client
\* still reads the next frame from the transport and still delivers the
\* queued results of every other subscription.
C2_StallDoesNotBlock ==
    \A s1 \in Subs :
        pc[s1] = "stalled" =>
            /\ (ws = "open" /\ wire # <<>>) => ENABLED ReceiveFrame
            /\ \A s2 \in Subs \ {s1} :
                   (pc[s2] = "listening" /\ queue[s2] # <<>>)
                       => ENABLED (DeliverOk(s2) \/ DeliverError(s2)
                                   \/ DeliverComplete(s2) \/ DeliverClosed(s2))

\* Some handler was called and has not returned.
HandlerStalled == \E s \in Subs : pc[s] = "stalled"

\* C3 (as claimed): after stop() every subscription loop ends and main
\* reaches its final step, whatever the server and the connection do
\* (handlers that never return set aside).
C3_ShutdownCompletes ==
    (stopCalls > 0 /\ ~HandlerStalled) ~> (mainPc = "stopped" \/ HandlerStalled)

\* C4 (as claimed): the step in which a server Error ends subscription s1
\* ends only s1: the shared connection stays as it is and no other
\* subscription is touched.
C4_ErrorEndsOnlyThatSubscription ==
    [][\A s1 \in Subs :
          (exit[s1] # "server_error" /\ exit'[s1] = "server_error")
              => /\ ws' = ws
                 /\ \A s2 \in Subs \ {s1} :
                        pc'[s2] = pc[s2] /\ queue'[s2] = queue[s2]]_vars

\* C5: for every subscription, the events passed to its handler are, in
\* order, a prefix of the events the server emitted for it: no reordering,
\* no duplicate, no gap.
C5_PerSubscriptionOrder ==
    \A s \in Subs : IsPrefix(handled[s], sent[s])

\* C5 witness: a handler has been passed two events, a third one is emitted.
C5_Witness ==
    \E s \in Subs : Len(handled[s]) >= 2 /\ Len(sent[s]) > Len(handled[s])

\* C6 (as claimed): a subscription whose coroutine has returned was
\* cancelled by stop() or completed by the server.
C6_RegisteredUntilCancelled ==
    \A s \in Subs :
        pc[s] = "done" => (stopCalls > 0 \/ exit[s] = "complete")

\* C7 (as claimed): no event emitted after stop() is passed to a handler.
C7_NoDeliveryAfterStop ==
    \A s \in Subs : Range(handled[s]) \cap lateEv = {}

\* C8: at most one physical connection is open or in progress, and there
\* are no more handshakes than physical connects, however many of the
\* three coroutines have entered the shared client.
C8_OneConnection ==
    /\ nOpen <= 1
    /\ handshakes <= connects

\* C8 witness: all three coroutines have entered the shared client and a
\* connection is open.
C8_Witness == AllStarted /\ ws = "open" /\ nOpen = 1 /\ handshakes = 1

\* C9 (as claimed): no subscription is ended because another one holds the
\* shared client.
C9_NoneRejected ==
    \A s \in Subs : exit[s] # "already_connected"

ProgramState ==
    <<running, mainPc, pc, exit, connecting, ws, nOpen, connects,
      handshakes, serverSubs, wire, queue, subscribes>>

\* C11: a stop() on a monitor that was already stopped changes nothing:
\* running stays False, no frame is sent, no coroutine and no connection
\* is touched.
C11_StopIdempotent ==
    [][(stopCalls > 0 /\ stopCalls' = stopCalls + 1)
          => (running' = FALSE /\ ProgramState' = ProgramState)]_vars

\* C11 witness: stop() was called twice while a subscription is listening.
C11_Witness ==
    stopCalls = 2 /\ ~running /\ \E s \in Subs : pc[s] = "listening"

\* C12 (as claimed): once the connection is ready, exactly one Subscribe
\* has been issued for every subscription that was started, never zero and
\* never two.
C12_ExactlyOneSubscribe ==
    (ws = "open" /\ stopCalls = 0) =>
        \A s \in Subs : pc[s] # "init" => subscribes[s] = 1

\* C14 (as claimed): after a transport failure that ended a subscription
\* while stop() had not been called, the client connects again and issues
\* the Subscribe of that subscription again, unless stop() is called in
\* the meantime.
C14_ResubscribesAfterFailure ==
    \A s \in Subs :
        (exit[s] = "transport" /\ stopCalls = 0)
            ~> ((connects >= 2 /\ subscribes[s] >= 2) \/ stopCalls > 0)

CaughtError(s) == exit[s] \in {"handler_error", "result_error"}

\* C17: once the coroutine of s has caught an exception raised by its
\* handler or by indexing a result, it has returned and stays returned, no
\* later event is passed to its handler, and main is not ended by it: main
\* ends only through gather, when all three coroutines have returned.
C17_HandlerErrorEndsSubscription ==
    [][\A s \in Subs :
          CaughtError(s) =>
              /\ pc[s] = "done" /\ pc'[s] = "done"
              /\ handled'[s] = handled[s]
              /\ (mainPc' # mainPc => \A u \in Subs : pc[u] = "done")]_vars

\* C17 witness: the handler raised while running was True and an event
\* emitted for the subscription was never handled; main has finished.
C17_Witness ==
    \E s \in Subs :
        /\ exit[s] = "handler_error"
        /\ running
        /\ Len(sent[s]) > Len(handled[s])
        /\ mainPc = "stopped"

\* C18: main has reached its final step only if all three coroutines have
\* returned; while a coroutine can still call a handler main has not
\* finished.
C18_MainEndsAfterAll ==
    mainPc = "stopped" => \A s \in Subs : pc[s] = "done"

\* C18 witness: main has finished after a subscription handled events; the
\* other two coroutines had returned long before.
C18_Witness ==
    /\ mainPc = "stopped"
    /\ \E s \in Subs : Len(handled[s]) >= 2
    /\ \E s \in Subs : exit[s] = "already_connected"

====
